---- MODULE Spec2Model ----
(***************************************************************************)
(* GPU object picking of the 3D panel (ThreeDeeRender/Picker.ts).          *)
(*                                                                         *)
(* The Picker renders object identifiers as colours into a small offscreen *)
(* target around the sample point, reads the pixels back and decodes the   *)
(* identifier at the sample position.  The renderer (render target, clear  *)
(* colour, clear alpha), the camera (view offset) and the draw-item lists  *)
(* of the last real frame are the Picker's environment; their operations   *)
(* are modelled at the call sites of Picker.ts.                            *)
(*                                                                         *)
(* Numbers.  A JavaScript number holding an integer of up to 33 bits is    *)
(* the record [hi, lo] standing for hi * 2^16 + lo with lo in 0..65535:    *)
(* an object id in [0, 2^32) has hi in 0..65535, an int32 has hi in        *)
(* -32768..32767.  The representation is unique, so record equality is     *)
(* number equality.  NaN is a record of its own.                             *)
(***************************************************************************)
EXTENDS Integers, Sequences, FiniteSets, TLC

VARIABLES
    gl,            \* the renderer: renderTarget, clearColor, clearAlpha, pixelRatio
    camera,        \* the camera's view restriction (setViewOffset / clearViewOffset)
    renderLists,   \* gl.renderLists.get(scene, 0): opaque, transmissive, transparent
    picker,        \* the Picker's fields
    materials,     \* every shader material: cached ones and userData.pickingMaterial
    last,          \* the last call made on the Picker: arguments, entry state, outcome, gl calls
    cid,           \* codec: the identifier being encoded
    cstage,        \* codec: "id", "uniform", "texel" or "val"
    cuniform,      \* codec: the objectId uniform value
    ctexel,        \* codec: the four bytes of the texel
    cval,          \* codec: the decoded value
    adapter        \* PanelExtensionAdapter: its refs and state, the animation frames
                   \* requested, the panel's render invocations, the last event

vars == <<gl, camera, renderLists, picker, materials, last,
          cid, cstage, cuniform, ctexel, cval, adapter>>

pickerVars == <<gl, camera, renderLists, picker, materials, last>>
codecVars == <<cid, cstage, cuniform, ctexel, cval>>

-----------------------------------------------------------------------------
(* Numbers *)

TwoTo16 == 2^16

NaN == [nan |-> TRUE]

\* no value: the call returned nothing or threw
NoVal == [none |-> TRUE]

Num(hi, lo) == [hi |-> hi, lo |-> lo]

\* A small non-negative integer as a number
NumOf(n) == Num(n \div TwoTo16, n % TwoTo16)

\* x | 0 and the implicit ToInt32 of the operands of >>, << and &
ToInt32(n) == Num(((n.hi + 32768) % TwoTo16) - 32768, n.lo)

\* storing into a Uint32Array element
ToUint32(n) == Num(n.hi % TwoTo16, n.lo)

\* (n >> 24) & 255, (n >> 16) & 255, (n >> 8) & 255, n & 255 on the int32 of n:
\* >> is the arithmetic shift (floor division), & 255 the residue modulo 256
ByteOf(n, shift) ==
    LET i == ToInt32(n)
    IN  CASE shift = 24 -> (i.hi \div 256) % 256
          [] shift = 16 -> i.hi % 256
          [] shift = 8  -> (i.lo \div 256) % 256
          [] shift = 0  -> i.lo % 256

-----------------------------------------------------------------------------
(* The identifier codec: processItem's encoding and pick's decoding *)

\* a colour channel as the fraction num / 255 (a uniform value in [0, 1])
Channel(byte) == [num |-> byte, den |-> 255]

\* the cache key without its sprite bit
MaterialIndexNoSprite(renderItem) ==
    (IF renderItem.object.isInstancedMesh THEN 1 ELSE 0)
        + 4 * (IF renderItem.material.sizeAttenuation THEN 1 ELSE 0)

\* the encoding with the last channel taken from bits 8-15 again
EncodeObjectIdLowByteLost(objId) ==
    << Channel(ByteOf(objId, 24)), Channel(ByteOf(objId, 16)),
       Channel(ByteOf(objId, 8)), Channel(ByteOf(objId, 8)) >>

\* processItem, iObjectId.value = [...]
EncodeObjectId(objId) ==
    << Channel(ByteOf(objId, 24)), Channel(ByteOf(objId, 16)),
       Channel(ByteOf(objId, 8)), Channel(ByteOf(objId, 0)) >>

\* gl_FragColor = objectId written to an 8-bit RGBA texel: each channel is
\* clamped to [0, 1], scaled by 255 and rounded to the nearest integer
StoreChannel(c) ==
    IF c = NaN THEN 0
    ELSE LET n == IF c.num < 0 THEN 0 ELSE IF c.num > c.den THEN c.den ELSE c.num
         IN  (2 * n * 255 + c.den) \div (2 * c.den)

StoreColor(value) == [k \in 1..4 |-> StoreChannel(value[k])]

\* b << 24 in int32 arithmetic, as the high half of the number
ShiftLeft24Hi(b) == (((b * 256) + 32768) % TwoTo16) - 32768

\* pick, val = (b0 << 24) + (b1 << 16) + (b2 << 8) + b3: the first term is an
\* int32, the sum is a sum of numbers
DecodePixel(b) == Num(ShiftLeft24Hi(b[1]) + b[2], b[3] * 256 + b[4])

\* the value decoded from the cleared background (all four channels at 255)
Sentinel == DecodePixel(<<255, 255, 255, 255>>)

\* Identifiers the codec is exercised on: every combination of boundary
\* values of the two 16-bit halves, so all four bytes meet 0, 1, 127, 128 and 255
HalfSamples == {0, 1, 127, 128, 255, 256, 32767, 32768, 65280, 65535}
IdSamples == {Num(h, l) : h \in HalfSamples, l \in HalfSamples}

CodecIdle ==
    /\ cid = Num(0, 0) /\ cstage = "off"
    /\ cuniform = <<NaN, NaN, NaN, NaN>> /\ ctexel = <<0, 0, 0, 0>> /\ cval = NaN

CodecStart ==
    /\ cid \in IdSamples /\ cstage = "id"
    /\ cuniform = <<NaN, NaN, NaN, NaN>> /\ ctexel = <<0, 0, 0, 0>> /\ cval = NaN

CodecEncode ==
    /\ cstage = "id"
    /\ cuniform' = EncodeObjectId(cid)
    /\ cstage' = "uniform"
    /\ UNCHANGED <<cid, ctexel, cval>>

CodecStore ==
    /\ cstage = "uniform"
    /\ ctexel' = StoreColor(cuniform)
    /\ cstage' = "texel"
    /\ UNCHANGED <<cid, cuniform, cval>>

CodecDecode ==
    /\ cstage = "texel"
    /\ cval' = DecodePixel(ctexel)
    /\ cstage' = "val"
    /\ UNCHANGED <<cid, cuniform, ctexel>>

-----------------------------------------------------------------------------
(* hashInt: 32-bit wraparound arithmetic on a Uint32Array element *)

Pow2(k) == 2^k

RECURSIVE Xor16(_, _, _)
Xor16(a, b, bits) ==
    IF bits = 0 THEN 0
    ELSE ((a + b) % 2) + 2 * Xor16(a \div 2, b \div 2, bits - 1)

\* a ^ b on uint32
Xor32(a, b) == Num(Xor16(a.hi, b.hi, 16), Xor16(a.lo, b.lo, 16))

\* a << k on uint32, 0 < k < 16
Shl32(a, k) ==
    Num((a.hi * Pow2(k) + a.lo \div Pow2(16 - k)) % TwoTo16, (a.lo * Pow2(k)) % TwoTo16)

\* a >>> k on uint32, 0 < k < 32
Shr32(a, k) ==
    IF k >= 16 THEN Num(0, a.hi \div Pow2(k - 16))
    ELSE Num(a.hi \div Pow2(k), (a.lo \div Pow2(k)) + (a.hi % Pow2(k)) * Pow2(16 - k))

\* a - b stored back into the Uint32Array element (modulo 2^32)
Sub32(a, b) ==
    LET borrow == IF a.lo < b.lo THEN 1 ELSE 0
    IN  Num((a.hi - b.hi - borrow) % TwoTo16, (a.lo - b.lo) % TwoTo16)

\* A[0] -= A[0] << k
SubShl(a, k) == Sub32(a, Shl32(a, k))

\* A[0] ^= A[0] << k
XorShl(a, k) == Xor32(a, Shl32(a, k))

\* A[0] ^= A[0] >>> k
XorShr(a, k) == Xor32(a, Shr32(a, k))

\* the seven updates of A[0], innermost first
hashInt(x) ==
    XorShr(XorShl(SubShl(XorShl(SubShl(XorShr(SubShl(
        ToUint32(ToInt32(x)), 6), 17), 9), 4), 3), 10), 15)

-----------------------------------------------------------------------------
(* Program constants and the bounds of the model *)

PIXEL_WIDTH == 9

\* THREE.Color(0xffffff)
WHITE_COLOR == 16777215

\* gl.domElement.width and .height, in device pixels
CanvasWidth == 12
CanvasHeight == 11

Max(a, b) == IF a >= b THEN a ELSE b
Min(a, b) == IF a <= b THEN a ELSE b

\* the depth buffer after gl.clear(): depth 1.0, in hundredths
ClearDepth == 100

-----------------------------------------------------------------------------
(* Materials *)

NoMaterial == [kind |-> "none", n |-> 0]
CachedMaterial(n) == [kind |-> "cached", n |-> n]
CustomMaterial(n) == [kind |-> "custom", n |-> n]

Absent == [absent |-> TRUE]
NoUniform == <<Absent, Absent, Absent, Absent>>
NaNUniform == <<NaN, NaN, NaN, NaN>>

\* new THREE.ShaderMaterial({... uniforms: { objectId: { value: [NaN, NaN, NaN, NaN] } } })
NewShaderMaterial(sprite, sizeAttenuation) ==
    [ objectId |-> NaNUniform, hasObjectId |-> TRUE,
      spriteVert |-> (sprite = 1), sizeAttenuationDefine |-> (sizeAttenuation = 1),
      spriteUniforms |-> FALSE, disposed |-> FALSE ]

\* a userData.pickingMaterial written by a panel extension
UserMaterial(hasObjectId) ==
    [ objectId |-> IF hasObjectId THEN NaNUniform ELSE NoUniform, hasObjectId |-> hasObjectId,
      spriteVert |-> FALSE, sizeAttenuationDefine |-> FALSE,
      spriteUniforms |-> FALSE, disposed |-> FALSE ]

-----------------------------------------------------------------------------
(* The scene: objects and the draw items of a frame *)

\* rect: the device pixels the object covers, x0 <= x < x1 and y0 <= y < y1
\* with y measured from the top; z: its depth in hundredths of the depth range
Object3D(id, picking, pickingMaterial, isInstancedMesh) ==
    [ id |-> id, picking |-> picking, pickingMaterial |-> pickingMaterial,
      isInstancedMesh |-> isInstancedMesh ]

RenderItem(object, geometry, type, sizeAttenuation, rect, z) ==
    [ object |-> object, geometry |-> geometry,
      material |-> [type |-> type, sizeAttenuation |-> sizeAttenuation],
      rect |-> rect, z |-> z ]

Rect(x0, y0, x1, y1) == [x0 |-> x0, y0 |-> y0, x1 |-> x1, y1 |-> y1]
FullRect == Rect(0, 0, CanvasWidth, CanvasHeight)

FarId == NumOf(7)
NearId == Num(32768, 2)
OptOutId == NumOf(9)
InstancedId == NumOf(13)
CustomId == NumOf(11)
NoGeomId == NumOf(15)
SpriteId == NumOf(12)
BadId == NumOf(14)
PointsId == NumOf(16)

Far == RenderItem(Object3D(FarId, TRUE, NoMaterial, FALSE), TRUE, "MeshBasicMaterial", FALSE, FullRect, 60)
Near == RenderItem(Object3D(NearId, TRUE, NoMaterial, FALSE), TRUE, "MeshBasicMaterial", FALSE,
                   Rect(5, 0, CanvasWidth, 9), 30)
OptOut == RenderItem(Object3D(OptOutId, FALSE, NoMaterial, FALSE), TRUE, "MeshBasicMaterial", FALSE, FullRect, 10)
Instanced == RenderItem(Object3D(InstancedId, TRUE, NoMaterial, TRUE), TRUE, "MeshBasicMaterial", FALSE,
                        Rect(0, 0, 3, 3), 20)
Custom == RenderItem(Object3D(CustomId, TRUE, CustomMaterial(1), FALSE), TRUE, "MeshBasicMaterial", FALSE,
                     Rect(2, 8, 5, CanvasHeight), 40)
NoGeom == RenderItem(Object3D(NoGeomId, TRUE, NoMaterial, FALSE), FALSE, "MeshBasicMaterial", FALSE, FullRect, 5)
Sprite == RenderItem(Object3D(SpriteId, TRUE, NoMaterial, FALSE), TRUE, "SpriteMaterial", TRUE,
                     Rect(0, 5, 4, 8), 50)
Bad == RenderItem(Object3D(BadId, TRUE, CustomMaterial(2), FALSE), TRUE, "MeshBasicMaterial", FALSE,
                  Rect(0, 0, 2, 2), 15)

\* a THREE.Points cloud: PointsMaterial with sizeAttenuation
Points == RenderItem(Object3D(PointsId, TRUE, NoMaterial, FALSE), TRUE, "PointsMaterial", TRUE,
                     Rect(8, 8, 10, 10), 45)

Lists(opaque, transmissive, transparent) ==
    [opaque |-> opaque, transmissive |-> transmissive, transparent |-> transparent]

\* the draw-item lists a frame can leave behind
Scenes ==
    { Lists(<<>>, <<>>, <<>>),
      Lists(<<Far>>, <<>>, <<>>),
      Lists(<<OptOut>>, <<>>, <<>>),
      Lists(<<Near, Far>>, <<>>, <<>>),
      Lists(<<OptOut, Near>>, <<NoGeom>>, <<Far>>),
      Lists(<<Far>>, <<>>, <<Bad, Sprite>>),
      Lists(<<Instanced>>, <<Custom, NoGeom>>, <<Sprite, Points>>) }

AllItems(lists) == lists.opaque \o lists.transmissive \o lists.transparent

WorldIds == {FarId, NearId, OptOutId, InstancedId, CustomId, NoGeomId, SpriteId, BadId, PointsId}

\* A should-pick callback is the set of the object ids it accepts
AlwaysPickObject == WorldIds
RejectAll == {}
OnlyFar == {FarId}
Predicates == {AlwaysPickObject, RejectAll, OnlyFar}

-----------------------------------------------------------------------------
(* The renderer and the camera, as Picker.ts calls them.                   *)
(* A world w is the record of everything a call can change:                *)
(* gl, camera, picker, materials, target (the texels of pickingTarget),    *)
(* calls (the gl and callback calls made so far) and threw.                *)

NullTarget == "null"
HostTarget == "hostTarget"
PickingTarget == "pickingTarget"

NoView == [enabled |-> FALSE]

Log(w, entry) == [w EXCEPT !.calls = Append(@, entry)]

\* camera.setViewOffset(fullWidth, fullHeight, x, y, width, height); x and y
\* are the fractions x / den and y / den
SetViewOffset(w, fullWidth, fullHeight, x, y, den, width, height) ==
    Log([w EXCEPT !.camera = [enabled |-> TRUE, fullWidth |-> fullWidth, fullHeight |-> fullHeight,
                              x |-> x, y |-> y, den |-> den, width |-> width, height |-> height]],
        [call |-> "setViewOffset", x |-> x, y |-> y, den |-> den, width |-> width, height |-> height])

\* camera.clearViewOffset()
ClearViewOffset(w) == Log([w EXCEPT !.camera = NoView], [call |-> "clearViewOffset"])

SetRenderTarget(w, target) ==
    Log([w EXCEPT !.gl.renderTarget = target], [call |-> "setRenderTarget", target |-> target])

\* gl.setClearColor(color, alpha = 1)
SetClearColor(w, color, alpha) ==
    Log([w EXCEPT !.gl.clearColor = color, !.gl.clearAlpha = alpha],
        [call |-> "setClearColor", color |-> color, alpha |-> alpha])

SetClearAlpha(w, alpha) ==
    Log([w EXCEPT !.gl.clearAlpha = alpha], [call |-> "setClearAlpha", alpha |-> alpha])

\* the texel gl.clear() writes: the clear colour premultiplied by the clear alpha
ClearTexel(color, alpha) ==
    [ rgba |-> << ((color \div 65536) % 256) * alpha, ((color \div 256) % 256) * alpha,
                  (color % 256) * alpha, 255 * alpha >>,
      depth |-> ClearDepth ]

Texels == 0..(PIXEL_WIDTH * PIXEL_WIDTH - 1)

\* gl.clear(): colour and depth of the active render target
Clear(w) ==
    LET cleared == IF w.gl.renderTarget = PickingTarget
                   THEN [w EXCEPT !.target = [t \in Texels |-> ClearTexel(w.gl.clearColor, w.gl.clearAlpha)]]
                   ELSE w
    IN  Log(cleared, [call |-> "clear", target |-> w.gl.renderTarget,
                      color |-> w.gl.clearColor, alpha |-> w.gl.clearAlpha])

\* The window of the full view the camera projects: the view offset when one is
\* set, else the whole canvas.  Origin as fractions over den, size in device pixels.
ViewWindow(cam) ==
    IF cam.enabled
    THEN [x |-> cam.x, y |-> cam.y, den |-> cam.den, width |-> cam.width, height |-> cam.height]
    ELSE [x |-> 0, y |-> 0, den |-> 1, width |-> CanvasWidth, height |-> CanvasHeight]

\* The texel columns and rows of a PIXEL_WIDTH x PIXEL_WIDTH target the item
\* covers.  Texel column i shows the window at its centre, the fraction
\* (2i + 1) / (2 * PIXEL_WIDTH) of its width; texel rows count from the bottom
\* (GL), the rows of the window from the top.
CoveredColumns(item, win) ==
    LET scale == 2 * PIXEL_WIDTH * win.den
    IN  { i \in 0..(PIXEL_WIDTH - 1) :
            LET cx == 2 * PIXEL_WIDTH * win.x + (2 * i + 1) * win.width * win.den
            IN  item.rect.x0 * scale <= cx /\ cx < item.rect.x1 * scale }

CoveredRows(item, win) ==
    LET scale == 2 * PIXEL_WIDTH * win.den
    IN  { j \in 0..(PIXEL_WIDTH - 1) :
            LET row == PIXEL_WIDTH - 1 - j
                cy == 2 * PIXEL_WIDTH * win.y + (2 * row + 1) * win.height * win.den
            IN  item.rect.y0 * scale <= cy /\ cy < item.rect.y1 * scale }

\* gl.renderBufferDirect(camera, NullScene, geometry, renderMaterial, object, null):
\* the object is rasterised into the active render target with the material's
\* fragment colour, under the depth test (less or equal) with depth write
RenderBufferDirect(w, item, handle) ==
    LET value == w.materials[handle].objectId
        win == ViewWindow(w.camera)
        columns == CoveredColumns(item, win)
        rows == CoveredRows(item, win)
        fragment == [rgba |-> StoreColor(value), depth |-> item.z]
        drawn == IF w.gl.renderTarget = PickingTarget
                 THEN [w EXCEPT !.target =
                         [t \in Texels |->
                            IF /\ (t % PIXEL_WIDTH) \in columns
                               /\ (t \div PIXEL_WIDTH) \in rows
                               /\ item.z <= w.target[t].depth
                            THEN fragment
                            ELSE w.target[t]]]
                 ELSE w
    IN  Log(drawn, [call |-> "renderBufferDirect", object |-> item.object.id, material |-> handle,
                    objectId |-> value, target |-> w.gl.renderTarget, view |-> w.camera.enabled])

\* gl.readRenderTargetPixels(pickingTarget, 0, 0, width, height, pixelBuffer)
\* pixelBuffer, a Uint8Array of 4 bytes per texel, is kept texel by texel:
\* its byte k is PixelByte(pixelBuffer, k)
ReadRenderTargetPixels(w) ==
    Log([w EXCEPT !.picker.pixelBuffer = [t \in Texels |-> w.target[t].rgba]],
        [call |-> "readRenderTargetPixels"])

\* pixelBuffer[k] for a whole k inside the buffer
PixelByte(pixelBuffer, k) == pixelBuffer[k \div 4][(k % 4) + 1]

-----------------------------------------------------------------------------
(* The Picker *)

\* processItem, the feature bits of the cache key
UseInstancing(renderItem) == IF renderItem.object.isInstancedMesh THEN 1 ELSE 0
IsSprite(renderItem) == IF renderItem.material.type = "SpriteMaterial" THEN 1 ELSE 0
SizeAttenuation(renderItem) == IF renderItem.material.sizeAttenuation THEN 1 ELSE 0

\* the size-attenuation bit shifted by 3 instead of 2
MaterialIndexWide(renderItem) ==
    UseInstancing(renderItem) + 2 * IsSprite(renderItem) + 8 * SizeAttenuation(renderItem)

\* (useInstancing << 0) | (sprite << 1) | (sizeAttenuation << 2)
MaterialIndex(renderItem) ==
    UseInstancing(renderItem) + 2 * IsSprite(renderItem) + 4 * SizeAttenuation(renderItem)

\* this.materialCache.get(index), userData.pickingMaterial not looked at
FindMaterialCacheOnly(w, renderItem) ==
    IF MaterialIndex(renderItem) \in DOMAIN w.picker.materialCache
    THEN w.picker.materialCache[MaterialIndex(renderItem)]
    ELSE NoMaterial

\* pickingMaterial ?? this.materialCache.get(index)
FindMaterial(w, renderItem) ==
    IF renderItem.object.pickingMaterial # NoMaterial THEN renderItem.object.pickingMaterial
    ELSE IF MaterialIndex(renderItem) \in DOMAIN w.picker.materialCache
         THEN w.picker.materialCache[MaterialIndex(renderItem)]
         ELSE NoMaterial

\* if (!renderMaterial) { renderMaterial = new THREE.ShaderMaterial(...); cache.set(...) }
CreateMaterial(w, renderItem, handle) ==
    Log([w EXCEPT !.materials = (handle :> NewShaderMaterial(IsSprite(renderItem),
                                                             SizeAttenuation(renderItem))) @@ @,
                  !.picker.materialCache = (MaterialIndex(renderItem) :> handle) @@ @,
                  !.picker.created = @ + 1],
        [call |-> "new ShaderMaterial", material |-> handle, index |-> MaterialIndex(renderItem)])

\* a new material for every override-free item, cached or not
WithMaterialAlwaysNew(w, renderItem) ==
    IF renderItem.object.pickingMaterial # NoMaterial THEN w
    ELSE CreateMaterial(w, renderItem, CachedMaterial(w.picker.created + 1))

\* the world in which the item's picking material exists
WithMaterial(w, renderItem) ==
    IF FindMaterial(w, renderItem) # NoMaterial THEN w
    ELSE CreateMaterial(w, renderItem, CachedMaterial(w.picker.created + 1))

\* if (sprite === 1) { renderMaterial.uniforms.rotation = ...; .center = ... }
SetSpriteUniforms(w, renderItem, renderMaterial) ==
    IF IsSprite(renderItem) = 1
    THEN [w EXCEPT !.materials[renderMaterial].spriteUniforms = TRUE]
    ELSE w

\* an item whose material has no objectId uniform is skipped
SubmitItemOrSkip(w, renderItem, objId, renderMaterial) ==
    IF ~w.materials[renderMaterial].hasObjectId
    THEN w
    ELSE RenderBufferDirect(
             [w EXCEPT !.materials[renderMaterial].objectId = EncodeObjectId(objId)],
             renderItem, renderMaterial)

\* the item drawn first and the objectId uniform written after the draw
SubmitItemStale(w, renderItem, objId, renderMaterial) ==
    IF ~w.materials[renderMaterial].hasObjectId
    THEN [w EXCEPT !.threw = TRUE]
    ELSE [RenderBufferDirect(w, renderItem, renderMaterial)
             EXCEPT !.materials[renderMaterial].objectId = EncodeObjectId(objId)]

\* the objectId uniform is looked up, written and the item drawn
SubmitItem(w, renderItem, objId, renderMaterial) ==
    IF ~w.materials[renderMaterial].hasObjectId
    THEN [w EXCEPT !.threw = TRUE]
    ELSE RenderBufferDirect(
             [w EXCEPT !.materials[renderMaterial].objectId = EncodeObjectId(objId)],
             renderItem, renderMaterial)

\* processItem with its picking material at hand
ProcessWithMaterial(w, renderItem, objId) ==
    SubmitItem(SetSpriteUniforms(w, renderItem, FindMaterial(w, renderItem)),
               renderItem, objId, FindMaterial(w, renderItem))

\* processItem, from the cache key on: an item that passed the three skip tests
ProcessEligibleItem(w, renderItem, objId) ==
    ProcessWithMaterial(WithMaterial(w, renderItem), renderItem, objId)

\* processItem with the material looked up or created before the callback is asked
ProcessItemMaterialFirst(w, renderItem) ==
    IF ~renderItem.geometry \/ ~renderItem.object.picking
    THEN w
    ELSE IF renderItem.object.id \notin w.picker.shouldPickObjectCB
         THEN WithMaterial(Log(w, [call |-> "shouldPickObjectCB", object |-> renderItem.object.id]),
                           renderItem)
         ELSE ProcessEligibleItem(
                  Log(w, [call |-> "shouldPickObjectCB", object |-> renderItem.object.id]),
                  renderItem,
                  IF w.picker.isDebugPass THEN hashInt(renderItem.object.id) ELSE renderItem.object.id)

\* processItem
ProcessItem(w, renderItem) ==
    LET object == renderItem.object
        objId == IF w.picker.isDebugPass THEN hashInt(object.id) ELSE object.id
    IN  IF ~renderItem.geometry \/ ~object.picking
        THEN w
        ELSE LET asked == Log(w, [call |-> "shouldPickObjectCB", object |-> object.id])
             IN  IF object.id \notin w.picker.shouldPickObjectCB
                 THEN asked
                 ELSE ProcessEligibleItem(asked, renderItem, objId)

RECURSIVE ForEach(_, _)
\* list.forEach(this.processItem); an error thrown by an item ends the pass
ForEach(w, list) ==
    IF list = <<>> \/ w.threw THEN w
    ELSE ForEach(ProcessItem(w, Head(list)), Tail(list))

\* the three lists processed opaque, transparent, transmissive
HandleAfterRenderTransparentFirst(w, lists) ==
    ForEach(ForEach(ForEach(w, lists.opaque), lists.transparent), lists.transmissive)

\* handleAfterRender
HandleAfterRender(w, lists) ==
    ForEach(ForEach(ForEach(w, lists.opaque), lists.transmissive), lists.transparent)

\* gl.render(this.emptyScene, this.camera): the empty scene draws nothing and
\* its onAfterRender hook runs handleAfterRender
Render(w, lists) ==
    HandleAfterRender(Log(w, [call |-> "render", target |-> w.gl.renderTarget]), lists)

\* gl.getClearColor(this.currClearColor)
GetClearColor(w) == [w EXCEPT !.picker.currClearColor = w.gl.clearColor]

\* gl.setClearColor(WHITE_COLOR); gl.setClearAlpha(1); gl.clear()
ClearWhite(w) == Clear(SetClearAlpha(SetClearColor(w, WHITE_COLOR, 1), 1))

\* gl.setClearColor(this.currClearColor, currAlpha)
RestoreClearColor(w, currAlpha) == SetClearColor(w, w.picker.currClearColor, currAlpha)

\* pickDebugRender up to its render call
DebugPass(w, lists) ==
    Render(ClearWhite(GetClearColor([w EXCEPT !.picker.isDebugPass = TRUE])), lists)

\* pickDebugRender after its render call; an error thrown in it skips the rest
DebugPassEnd(w, currAlpha) ==
    IF w.threw THEN w
    ELSE [RestoreClearColor(w, currAlpha) EXCEPT !.picker.isDebugPass = FALSE]

\* pickDebugRender without its last two statements
PickDebugRenderNoRestore(w, lists) == DebugPass(w, lists)

\* pickDebugRender
PickDebugRender(w, lists) == DebugPassEnd(DebugPass(w, lists), w.gl.clearAlpha)

\* pixelBuffer[offset + 0..3] decoded, offset being the fraction num / den: at a
\* fractional index every read is undefined, undefined << k is 0 and
\* 0 + undefined is NaN
DecodeAt(pixelBuffer, num, den) ==
    IF num % den # 0 THEN NaN
    ELSE LET offset == num \div den
         IN  DecodePixel(<< PixelByte(pixelBuffer, offset), PixelByte(pixelBuffer, offset + 1),
                            PixelByte(pixelBuffer, offset + 2), PixelByte(pixelBuffer, offset + 3) >>)

\* pick(x, y, shouldPickObject): the world it leaves and the value it returns.
\* x and y are whole CSS pixels; the pixel ratio is the fraction num / den, and
\* xi, yi, xo, yo, offset are fractions over den.
\* hw = Math.floor(PIXEL_WIDTH / 2)
HalfWidth == PIXEL_WIDTH \div 2

\* x * pixelRatio - hw without the clamp at 0
WindowOriginUnclamped(x, pixelRatio) == x * pixelRatio.num - HalfWidth * pixelRatio.den

\* xi = Math.max(0, x * pixelRatio - hw), over pixelRatio.den
WindowOrigin(x, pixelRatio) == Max(0, x * pixelRatio.num - HalfWidth * pixelRatio.den)

\* xo = Math.min(hw, xi), over pixelRatio.den
SampleOffset(x, pixelRatio) == Min(HalfWidth * pixelRatio.den, WindowOrigin(x, pixelRatio))

\* offset = (yo * PIXEL_WIDTH + xo) * 4, over pixelRatio.den
ByteOffset(x, y, pixelRatio) ==
    (SampleOffset(y, pixelRatio) * PIXEL_WIDTH + SampleOffset(x, pixelRatio)) * 4

\* pick with a debug Picker's readback pass run as a debug pass
PickSetupHashed(w, x, y, shouldPickObject) ==
    ClearWhite(SetRenderTarget(GetClearColor(
        SetViewOffset([w EXCEPT !.picker.shouldPickObjectCB = shouldPickObject,
                                !.picker.isDebugPass = w.picker.debug],
                      CanvasWidth, CanvasHeight,
                      WindowOrigin(x, w.gl.pixelRatio), WindowOrigin(y, w.gl.pixelRatio),
                      w.gl.pixelRatio.den, PIXEL_WIDTH, PIXEL_WIDTH)),
        PickingTarget))

\* pick, from its first statement to gl.clear()
PickSetup(w, x, y, shouldPickObject) ==
    ClearWhite(SetRenderTarget(GetClearColor(
        SetViewOffset([w EXCEPT !.picker.shouldPickObjectCB = shouldPickObject],
                      CanvasWidth, CanvasHeight,
                      WindowOrigin(x, w.gl.pixelRatio), WindowOrigin(y, w.gl.pixelRatio),
                      w.gl.pixelRatio.den, PIXEL_WIDTH, PIXEL_WIDTH)),
        PickingTarget))

\* the restoring statements first, the readback last
PickReadbackLate(w, currRenderTarget, currAlpha) ==
    ReadRenderTargetPixels(ClearViewOffset(RestoreClearColor(
        SetRenderTarget(w, currRenderTarget), currAlpha)))

\* pick, the readback and the restoring statements after the render call
PickReadback(w, currRenderTarget, currAlpha) ==
    ClearViewOffset(RestoreClearColor(
        SetRenderTarget(ReadRenderTargetPixels(w), currRenderTarget), currAlpha))

\* what pick returns: nothing when an error was thrown
PickResult(w, val) == [w |-> w, val |-> IF w.threw THEN NoVal ELSE val]

\* pick, from the decoding of val to the return
PickEnd(w, lists, x, y) ==
    PickResult(IF w.picker.debug THEN PickDebugRender(w, lists) ELSE w,
               DecodeAt(w.picker.pixelBuffer, ByteOffset(x, y, w.gl.pixelRatio),
                        w.gl.pixelRatio.den))

\* pick after its render call; an error thrown in it skips the rest
PickAfterRender(w, lists, x, y, currRenderTarget, currAlpha) ==
    IF w.threw THEN PickResult(w, NoVal)
    ELSE PickEnd(PickReadback(w, currRenderTarget, currAlpha), lists, x, y)

Pick(w, lists, x, y, shouldPickObject) ==
    PickAfterRender(Render(PickSetup(w, x, y, shouldPickObject), lists),
                    lists, x, y, w.gl.renderTarget, w.gl.clearAlpha)

RECURSIVE DisposeAll(_, _)
DisposeAll(w, handles) ==
    IF handles = {} THEN w
    ELSE LET h == CHOOSE m \in handles : TRUE
         IN  DisposeAll(Log([w EXCEPT !.materials[h].disposed = TRUE],
                            [call |-> "material.dispose", material |-> h]),
                        handles \ {h})

\* dispose without this.materialCache.clear()
DisposeNoClear(w) ==
    Log([DisposeAll(w, {w.picker.materialCache[k] : k \in DOMAIN w.picker.materialCache})
            EXCEPT !.picker.targetDisposed = TRUE],
        [call |-> "pickingTarget.dispose"])

\* dispose
Dispose(w) ==
    LET cache == w.picker.materialCache
        w1 == DisposeAll(w, {cache[k] : k \in DOMAIN cache})
        w2 == [w1 EXCEPT !.picker.materialCache = <<>>]
    IN  Log([w2 EXCEPT !.picker.targetDisposed = TRUE], [call |-> "pickingTarget.dispose"])

-----------------------------------------------------------------------------
(* PanelExtensionAdapter: the render loop.                                 *)
(* An adapter a is the record of the component's refs and state            *)
(* (renderFn, renderingRef, prevRenderState, latestPipelineContextRef,     *)
(* rafRequestedRef, watchedFieldsRef, slowRender, error), of the animation *)
(* frames the browser holds (frames), of the panels initialised (panels),  *)
(* of the invocations of render functions with their done callbacks        *)
(* (invocations), and of the last event.                                   *)

\* the player's topic lists the pipeline publishes, and the panels mounted
MaxTopics == 2
MaxPanels == 2

Undefined == [undefined |-> TRUE]

\* arrays are compared by reference: an array is its reference
TopicsRef(n) == [ref |-> n]
EmptyTopics == TopicsRef(0)

\* the render function the n-th initPanel assigns to context.onRender
RenderFn(n) == [panel |-> n]

\* what a render function does with its done callback: keeps it for later,
\* calls it before returning, or throws
Outcomes == {"async", "sync", "threw"}

AdapterConstructed ==
    [ renderFn |-> Undefined, renderingRef |-> FALSE,
      prevRenderState |-> [topics |-> Undefined],
      latestPipelineContextRef |-> Undefined, rafRequestedRef |-> Undefined,
      watchedFieldsRef |-> {}, slowRender |-> FALSE, error |-> FALSE,
      frames |-> {}, panels |-> 0, invocations |-> <<>>, changedWhileRendering |-> FALSE,
      event |-> [op |-> "constructor"] ]

AdapterIdle == adapter = AdapterConstructed

\* requestAnimationFrame returns a handle no pending request has
NextHandle(frames) == CHOOSE n \in 1..(Cardinality(frames) + 1) : \A r \in frames : r.handle # n

\* queueRender without the test of rafRequestedRef
QueueRenderUngated(a) ==
    IF a.renderFn = Undefined THEN a
    ELSE [a EXCEPT !.rafRequestedRef = [handle |-> NextHandle(a.frames)],
                   !.frames = @ \cup {[handle |-> NextHandle(a.frames), fn |-> a.renderFn]}]

\* queueRender: the callback requested is renderPanelImpl, which holds the
\* renderFn of the render that created it
QueueRender(a) ==
    IF a.renderFn = Undefined \/ a.rafRequestedRef # Undefined THEN a
    ELSE [a EXCEPT !.rafRequestedRef = [handle |-> NextHandle(a.frames)],
                   !.frames = @ \cup {[handle |-> NextHandle(a.frames), fn |-> a.renderFn]}]

\* messagePipelineSelector
MessagePipelineSelector(a, ctx) ==
    QueueRender([a EXCEPT !.latestPipelineContextRef = ctx,
                          !.changedWhileRendering =
                              @ \/ (a.renderingRef /\ ctx # a.latestPipelineContextRef),
                          !.event = [op |-> "pipeline"]])

\* playerState?.activeData?.topics ?? EmptyTopics
NewTopics(a) ==
    IF a.latestPipelineContextRef = Undefined THEN EmptyTopics
    ELSE a.latestPipelineContextRef.topics

\* renderPanelImpl: should render
ShouldRender(a) == "topics" \in a.watchedFieldsRef /\ NewTopics(a) # a.prevRenderState.topics

\* renderPanelImpl from "renderingRef.current = true" on: renderFn(renderState, done)
InvokeRenderFn(a, fn, outcome) ==
    [a EXCEPT !.prevRenderState.topics = NewTopics(a),
              !.renderingRef = (outcome # "sync"),
              !.error = (outcome = "threw"),
              !.changedWhileRendering = FALSE,
              !.invocations = Append(@, [fn |-> fn, renderState |-> [topics |-> NewTopics(a)],
                                         doneCalled |-> (outcome = "sync")]),
              !.event = [op |-> "animationFrame", fn |-> fn, result |-> "invoked"]]

\* renderPanelImpl, run by the browser for the request r
RenderPanelImpl(a, r, outcome) ==
    IF r.fn = Undefined THEN [a EXCEPT !.frames = @ \ {r}]
    ELSE IF a.renderingRef
         THEN [a EXCEPT !.frames = @ \ {r}, !.rafRequestedRef = Undefined, !.slowRender = TRUE,
                        !.event = [op |-> "animationFrame", fn |-> r.fn, result |-> "slow"]]
         ELSE IF ~ShouldRender(a)
              THEN [a EXCEPT !.frames = @ \ {r}, !.rafRequestedRef = Undefined, !.slowRender = FALSE,
                             !.event = [op |-> "animationFrame", fn |-> r.fn, result |-> "unchanged"]]
              ELSE InvokeRenderFn([a EXCEPT !.frames = @ \ {r}, !.rafRequestedRef = Undefined,
                                            !.slowRender = FALSE],
                                  r.fn, outcome)

\* the done callback without its doneCalled flag
DoneCallbackUnflagged(a, i) ==
    [a EXCEPT !.invocations[i].doneCalled = TRUE, !.renderingRef = FALSE,
              !.event = [op |-> "done", invocation |-> i, first |-> ~a.invocations[i].doneCalled]]

\* the done callback handed to the i-th invocation
DoneCallback(a, i) ==
    IF a.invocations[i].doneCalled
    THEN [a EXCEPT !.event = [op |-> "done", invocation |-> i, first |-> FALSE]]
    ELSE [a EXCEPT !.invocations[i].doneCalled = TRUE, !.renderingRef = FALSE,
                   !.event = [op |-> "done", invocation |-> i, first |-> TRUE]]

\* context.onRender = renderFunction, and the effect that calls queueRender()
\* once the component has rendered with the new renderFn
SetRenderFn(a, fn) == QueueRender([a EXCEPT !.renderFn = fn])

\* cancelAnimationFrame(rafRequestedRef.current)
CancelAnimationFrame(a) ==
    IF a.rafRequestedRef = Undefined THEN a
    ELSE [a EXCEPT !.frames = {r \in @ : r.handle # a.rafRequestedRef.handle},
                   !.rafRequestedRef = Undefined]

\* the layout effect that runs initPanel: the panel watches "topics" and
\* assigns context.onRender, now or later
InitPanelEffect(a, assignsOnRender) ==
    SetRenderFn([CancelAnimationFrame(a) EXCEPT
                    !.prevRenderState = [topics |-> Undefined],
                    !.panels = @ + 1,
                    !.watchedFieldsRef = @ \cup {"topics"},
                    !.event = [op |-> "initPanel"]],
                IF assignsOnRender THEN RenderFn(a.panels + 1) ELSE Undefined)

-----------------------------------------------------------------------------
(* The state machine: calls on the Picker and the host between them *)

\* the render state the host leaves between picks: target, clear colour, clear alpha
HostStates ==
    { [renderTarget |-> NullTarget, clearColor |-> 0, clearAlpha |-> 0],
      [renderTarget |-> HostTarget, clearColor |-> 3368601, clearAlpha |-> 1] }

\* window.devicePixelRatio: 1 and 1.125
PixelRatios == {[num |-> 1, den |-> 1], [num |-> 9, den |-> 8]}

\* the CSS pixels picked
PickPoints == {<<9, 9>>, <<2, 9>>, <<4, 1>>, <<5, 1>>}

InBounds(x, y, pixelRatio) ==
    /\ x >= 0 /\ x * pixelRatio.num < CanvasWidth * pixelRatio.den
    /\ y >= 0 /\ y * pixelRatio.num < CanvasHeight * pixelRatio.den

\* what the claims compare a call's exit state with
EntryState == [renderTarget |-> gl.renderTarget, clearColor |-> gl.clearColor,
               clearAlpha |-> gl.clearAlpha, viewEnabled |-> camera.enabled]

NoCall(op) ==
    [ op |-> op, x |-> 0, y |-> 0, shouldPickObject |-> {}, entry |-> EntryState,
      outcome |-> "returned", val |-> NoVal, calls |-> <<>> ]

\* The texels of pickingTarget are kept within a call only: pick and
\* pickDebugRender clear the target before they draw into it or read it.
World == [ gl |-> gl, camera |-> camera, picker |-> picker, materials |-> materials,
           target |-> [t \in Texels |-> [rgba |-> <<0, 0, 0, 0>>, depth |-> ClearDepth]],
           calls |-> <<>>, threw |-> FALSE ]

Outcome(w) == IF w.threw THEN "threw" ELSE "returned"

Init ==
    /\ \E hs \in HostStates, pr \in PixelRatios :
          gl = [renderTarget |-> hs.renderTarget, clearColor |-> hs.clearColor,
                clearAlpha |-> hs.clearAlpha, pixelRatio |-> pr]
    /\ camera = NoView
    /\ renderLists \in Scenes
    /\ \E debug \in BOOLEAN :
          picker = [ shouldPickObjectCB |-> AlwaysPickObject, materialCache |-> <<>>,
                     pixelBuffer |-> [t \in Texels |-> <<0, 0, 0, 0>>],
                     currClearColor |-> WHITE_COLOR, debug |-> debug, isDebugPass |-> FALSE,
                     created |-> 0, targetDisposed |-> FALSE ]
    /\ materials = (CustomMaterial(1) :> UserMaterial(TRUE)) @@ (CustomMaterial(2) :> UserMaterial(FALSE))
    /\ last = [ op |-> "constructor", x |-> 0, y |-> 0, shouldPickObject |-> {},
                entry |-> [renderTarget |-> gl.renderTarget, clearColor |-> gl.clearColor,
                           clearAlpha |-> gl.clearAlpha, viewEnabled |-> FALSE],
                outcome |-> "returned", val |-> NoVal, calls |-> <<>> ]
    /\ CodecIdle
    /\ AdapterIdle

\* picker.pick(x, y) and picker.pick(x, y, shouldPickObject)
PickCall ==
    /\ ~picker.targetDisposed
    /\ \E p \in PickPoints, shouldPickObject \in Predicates :
          /\ InBounds(p[1], p[2], gl.pixelRatio)
          /\ \E r \in {Pick(World, renderLists, p[1], p[2], shouldPickObject)} :
                 /\ gl' = r.w.gl
                 /\ camera' = r.w.camera
                 /\ picker' = r.w.picker
                 /\ materials' = r.w.materials
                 /\ last' = [ op |-> "pick", x |-> p[1], y |-> p[2], shouldPickObject |-> shouldPickObject,
                              entry |-> EntryState, outcome |-> Outcome(r.w), val |-> r.val,
                              calls |-> r.w.calls ]
    /\ UNCHANGED <<renderLists, codecVars, adapter>>

\* picker.pickDebugRender(), called directly
PickDebugRenderCall ==
    /\ ~picker.targetDisposed
    /\ \E w \in {PickDebugRender(World, renderLists)} :
           /\ gl' = w.gl
           /\ camera' = w.camera
           /\ picker' = w.picker
           /\ materials' = w.materials
           /\ last' = [NoCall("pickDebugRender") EXCEPT !.outcome = Outcome(w), !.calls = w.calls]
    /\ UNCHANGED <<renderLists, codecVars, adapter>>

\* picker.dispose()
DisposeCall ==
    /\ \E w \in {Dispose(World)} :
           /\ picker' = w.picker
           /\ materials' = w.materials
           /\ last' = [NoCall("dispose") EXCEPT !.outcome = Outcome(w), !.calls = w.calls]
    /\ UNCHANGED <<gl, camera, renderLists, codecVars, adapter>>

\* the host sets its own render target and clear colour
HostSetState ==
    /\ \E hs \in HostStates :
          /\ hs # [renderTarget |-> gl.renderTarget, clearColor |-> gl.clearColor, clearAlpha |-> gl.clearAlpha]
          /\ gl' = [gl EXCEPT !.renderTarget = hs.renderTarget, !.clearColor = hs.clearColor,
                              !.clearAlpha = hs.clearAlpha]
    /\ last' = NoCall("host")
    /\ UNCHANGED <<camera, renderLists, picker, materials, codecVars, adapter>>

Next == PickCall \/ PickDebugRenderCall \/ HostSetState

Spec == Init /\ [][Next]_vars

\* The life of one Picker up to and past dispose(): picks, then dispose, which
\* may be called again.  No pick follows dispose (PickCall requires an
\* undisposed target).
LifecycleScenes ==
    { Lists(<<Near, Far>>, <<>>, <<>>),
      Lists(<<Instanced>>, <<Custom, NoGeom>>, <<Sprite, Points>>) }

LifecycleInit == Init /\ renderLists \in LifecycleScenes /\ gl.renderTarget = NullTarget

LifecycleNext == PickCall \/ DisposeCall

SpecLifecycle == LifecycleInit /\ [][LifecycleNext]_vars

\* the codec on its own: one identifier encoded, stored and decoded
\* The Picker over a sequence of frames: the host renders a frame, which
\* replaces the render lists, picks any number of times and may dispose.
FrameInit == Init /\ gl.renderTarget = NullTarget /\ gl.pixelRatio.den = 1

\* a normal rendering pass of the host repopulates gl.renderLists
NewFrame ==
    /\ \E lists \in Scenes : lists # renderLists /\ renderLists' = lists
    /\ last' = NoCall("frame")
    /\ UNCHANGED <<gl, camera, picker, materials, codecVars, adapter>>

FramesNext == PickCall \/ DisposeCall \/ NewFrame

SpecFrames == FrameInit /\ [][FramesNext]_vars

\* The adapter's render loop: the component is constructed, initPanel runs
\* when the panel mounts or changes, the message pipeline publishes contexts,
\* the browser runs animation frames and panels call their done callbacks.
AdapterInit ==
    /\ Init
    /\ gl.renderTarget = NullTarget /\ gl.pixelRatio.den = 1
    /\ renderLists = Lists(<<>>, <<>>, <<>>)
    /\ ~picker.debug

\* useLayoutEffect(..., [initPanel, panelId, partialExtensionContext])
InitPanel ==
    /\ ~adapter.error
    /\ adapter.panels < MaxPanels
    /\ \E assignsOnRender \in BOOLEAN : adapter' = InitPanelEffect(adapter, assignsOnRender)
    /\ UNCHANGED <<pickerVars, codecVars>>

\* the panel assigns context.onRender after initPanel has returned
OnRender ==
    /\ ~adapter.error
    /\ adapter.panels > 0 /\ adapter.renderFn = Undefined
    /\ adapter' = SetRenderFn([adapter EXCEPT !.event = [op |-> "onRender"]],
                              RenderFn(adapter.panels))
    /\ UNCHANGED <<pickerVars, codecVars>>

\* the message pipeline publishes a context: the same topics or a new list
PipelineUpdate ==
    /\ ~adapter.error
    /\ \E n \in 1..MaxTopics :
          /\ \/ adapter.latestPipelineContextRef = Undefined /\ n = 1
             \/ /\ adapter.latestPipelineContextRef # Undefined
                /\ n \in { adapter.latestPipelineContextRef.topics.ref,
                           adapter.latestPipelineContextRef.topics.ref + 1 }
          /\ adapter' = MessagePipelineSelector(adapter, [topics |-> TopicsRef(n)])
    /\ UNCHANGED <<pickerVars, codecVars>>

\* the browser runs a requested animation frame callback
AnimationFrame ==
    /\ ~adapter.error
    /\ \E r \in adapter.frames, outcome \in Outcomes :
          adapter' = RenderPanelImpl(adapter, r, outcome)
    /\ UNCHANGED <<pickerVars, codecVars>>

\* a panel calls a done callback it was handed, for the first time or again
Done ==
    /\ ~adapter.error
    /\ \E i \in 1..Len(adapter.invocations) : adapter' = DoneCallback(adapter, i)
    /\ UNCHANGED <<pickerVars, codecVars>>

AdapterNext == InitPanel \/ OnRender \/ PipelineUpdate \/ AnimationFrame \/ Done

SpecAdapter == AdapterInit /\ [][AdapterNext]_vars

\* animation frames keep firing
SpecAdapterLive == SpecAdapter /\ WF_vars(AnimationFrame)

CodecInit ==
    /\ gl = [renderTarget |-> NullTarget, clearColor |-> 0, clearAlpha |-> 0,
             pixelRatio |-> [num |-> 1, den |-> 1]]
    /\ camera = NoView
    /\ renderLists = [opaque |-> <<>>, transmissive |-> <<>>, transparent |-> <<>>]
    /\ picker = [ shouldPickObjectCB |-> AlwaysPickObject, materialCache |-> <<>>,
                  pixelBuffer |-> [t \in Texels |-> <<0, 0, 0, 0>>],
                  currClearColor |-> WHITE_COLOR, debug |-> FALSE, isDebugPass |-> FALSE,
                  created |-> 0, targetDisposed |-> FALSE ]
    /\ materials = <<>>
    /\ last = [ op |-> "constructor", x |-> 0, y |-> 0, shouldPickObject |-> {},
                entry |-> [renderTarget |-> NullTarget, clearColor |-> 0,
                           clearAlpha |-> 0, viewEnabled |-> FALSE],
                outcome |-> "returned", val |-> NoVal, calls |-> <<>> ]
    /\ CodecStart
    /\ AdapterIdle

CodecNext ==
    \/ CodecEncode /\ UNCHANGED <<pickerVars, adapter>>
    \/ CodecStore /\ UNCHANGED <<pickerVars, adapter>>
    \/ CodecDecode /\ UNCHANGED <<pickerVars, adapter>>

SpecCodec == CodecInit /\ [][CodecNext]_vars

-----------------------------------------------------------------------------
(* Properties *)

PickReturned == last.op = "pick" /\ last.outcome = "returned"

ItemsOf(lists) == {AllItems(lists)[k] : k \in 1..Len(AllItems(lists))}

\* the item passes processItem's three skip tests under the predicate
Eligible(item, shouldPickObject) ==
    item.geometry /\ item.object.picking /\ item.object.id \in shouldPickObject

EligibleItems(lists, shouldPickObject) ==
    {item \in ItemsOf(lists) : Eligible(item, shouldPickObject)}

\* the device pixel the request (x, y) names, and the drawn items lying under it
UnderPoint(item, x, y, pixelRatio) ==
    LET dx == (x * pixelRatio.num) \div pixelRatio.den
        dy == (y * pixelRatio.num) \div pixelRatio.den
    IN  /\ item.geometry
        /\ item.rect.x0 <= dx /\ dx < item.rect.x1
        /\ item.rect.y0 <= dy /\ dy < item.rect.y1

Draws(calls) == {k \in 1..Len(calls) : calls[k].call = "renderBufferDirect"}

\* C1: for every identifier in [0, 2^32), encoding it into four bytes as
\* processItem does and decoding them as pick does yields the identifier.
C1_RoundTrip == cstage = "val" => cval = cid

\* C2: after pick returns normally (debug on or off, with or without a
\* predicate, after any earlier calls) the render target, the clear colour and
\* the clear alpha are those at entry and the camera has no view restriction.
C2_RestoredOnReturn ==
    PickReturned =>
        /\ gl.renderTarget = last.entry.renderTarget
        /\ gl.clearColor = last.entry.clearColor
        /\ gl.clearAlpha = last.entry.clearAlpha
        /\ ~camera.enabled

\* a debug pick with a predicate that drew, entered with the host's transparent
\* black clear colour
C2_Witness ==
    /\ PickReturned /\ picker.debug /\ last.shouldPickObject = OnlyFar
    /\ last.entry.clearAlpha = 0 /\ last.entry.renderTarget = NullTarget
    /\ Draws(last.calls) # {}
    /\ gl.renderTarget = NullTarget /\ gl.clearAlpha = 0 /\ ~camera.enabled

\* C3: on every exit path of pick, an error raised inside the render call
\* included, render target, clear colour, clear alpha and the camera's view
\* restriction are as they were at entry.
C3_RestoredOnEveryExit ==
    last.op = "pick" =>
        /\ gl.renderTarget = last.entry.renderTarget
        /\ gl.clearColor = last.entry.clearColor
        /\ gl.clearAlpha = last.entry.clearAlpha
        /\ (~last.entry.viewEnabled => ~camera.enabled)

\* C4: when the draw-item lists hold exactly one eligible object and it covers
\* the whole viewport, pick returns its identifier for every in-bounds point.
C4_FullCoverReturnsId ==
    PickReturned =>
        \A item \in EligibleItems(renderLists, last.shouldPickObject) :
            ( /\ EligibleItems(renderLists, last.shouldPickObject) = {item}
              /\ item.rect = FullRect )
            => last.val = item.object.id

\* C5: when the draw-item lists hold no eligible object, pick returns the
\* sentinel, the value decoded from the cleared background, at every
\* in-bounds point.
C5_NoEligibleReturnsSentinel ==
    (PickReturned /\ EligibleItems(renderLists, AlwaysPickObject) = {})
        => last.val = Sentinel

\* C6: the value decoded for an object differs from the no-hit sentinel for
\* every identifier other than 0xFFFFFFFF, and equals it for 0xFFFFFFFF.
C6_SentinelOnlyForAllOnes ==
    cstage = "val" => (cval = Sentinel <=> cid = Num(65535, 65535))

C6_Witness == cstage = "val" /\ cid = Num(65535, 65535) /\ cval = Sentinel

\* C7: an object flagged pick-opt-out is never the object whose identifier
\* pick returns, and when every object under the requested point is flagged
\* pick returns the sentinel.
C7_OptOutNeverPicked ==
    PickReturned =>
        /\ \A item \in ItemsOf(renderLists) :
              ~item.object.picking => last.val # item.object.id
        /\ ( /\ \E item \in ItemsOf(renderLists) :
                    UnderPoint(item, last.x, last.y, gl.pixelRatio)
             /\ \A item \in ItemsOf(renderLists) :
                    UnderPoint(item, last.x, last.y, gl.pixelRatio) => ~item.object.picking )
           => last.val = Sentinel

\* C8: a pick with a predicate that rejects every object returns the
\* sentinel, whatever the lists hold and at every point.
C8_RejectAllReturnsSentinel ==
    (PickReturned /\ last.shouldPickObject = RejectAll) => last.val = Sentinel

\* C9: with two overlapping objects at different depths and a predicate that
\* accepts only the far one, pick at a point of the overlap returns the far
\* object's identifier.
C9_RejectedNearDoesNotOcclude ==
    ( /\ PickReturned
      /\ renderLists = Lists(<<Near, Far>>, <<>>, <<>>)
      /\ last.shouldPickObject = OnlyFar
      /\ UnderPoint(Near, last.x, last.y, gl.pixelRatio)
      /\ UnderPoint(Far, last.x, last.y, gl.pixelRatio) )
    => last.val = FarId

\* C10: a predicate supplied to a pick is in effect for that call only: once
\* the call has returned it is not the active should-pick callback.
C10_PredicateScopedToCall ==
    PickReturned => picker.shouldPickObjectCB = AlwaysPickObject

\* the draw item of the lists whose object has the identifier
ItemOfId(lists, id) == CHOOSE item \in ItemsOf(lists) : item.object.id = id

\* the draws of a call log whose item has no userData.pickingMaterial
CachedDraws(calls) ==
    {k \in Draws(calls) : ItemOfId(renderLists, calls[k].object).object.pickingMaterial = NoMaterial}

FeatureBits(item) ==
    <<item.object.isInstancedMesh, item.material.type = "SpriteMaterial", item.material.sizeAttenuation>>

\* between the draws of two call logs: same feature bits, same material instance;
\* different feature bits, different instances
SameBitsSameMaterial(callsA, callsB) ==
    \A a \in CachedDraws(callsA), b \in CachedDraws(callsB) :
        (FeatureBits(ItemOfId(renderLists, callsA[a].object))
            = FeatureBits(ItemOfId(renderLists, callsB[b].object)))
        <=> (callsA[a].material = callsB[b].material)

\* C11: over any sequence of calls, two eligible items without a custom
\* material are drawn with the same cached material instance when their
\* (instanced, sprite, size-attenuation) bits agree and with distinct instances
\* when they differ, within a call and from one call to the next.
C11_CacheKeyedByFeatureBits ==
    [][ /\ SameBitsSameMaterial(last'.calls, last'.calls)
        /\ SameBitsSameMaterial(last.calls, last'.calls) ]_vars

\* a pick that found both materials in the cache and drew the sprite and the
\* point cloud, which differ in the sprite bit only, with distinct materials
C11_Witness ==
    /\ PickReturned
    /\ \A k \in 1..Len(last.calls) : last.calls[k].call # "new ShaderMaterial"
    /\ \E a \in Draws(last.calls), b \in Draws(last.calls) :
          /\ last.calls[a].object = SpriteId /\ last.calls[b].object = PointsId
          /\ last.calls[a].material # last.calls[b].material

CachedHandles == {h \in DOMAIN materials : h.kind = "cached"}

\* C12: after dispose() the material cache is empty, every material the cache
\* held has been disposed and the offscreen target has been disposed; this
\* holds after a second dispose() too, which completes without raising.
C12_DisposeReleasesAll ==
    last.op = "dispose" =>
        /\ last.outcome = "returned"
        /\ picker.materialCache = <<>>
        /\ picker.targetDisposed
        /\ \A h \in CachedHandles : materials[h].disposed

\* a second dispose(): three cached materials were disposed by the first one,
\* this one found the cache empty and disposed the target only
C12_Witness ==
    /\ last.op = "dispose" /\ last.outcome = "returned"
    /\ Cardinality(CachedHandles) = 3
    /\ \A h \in CachedHandles : materials[h].disposed
    /\ last.calls = <<[call |-> "pickingTarget.dispose"]>>
    /\ picker.materialCache = <<>> /\ picker.targetDisposed

\* the same pick on a Picker that differs in its debug option only
PickWithoutDebug ==
    Pick([World EXCEPT !.picker.debug = FALSE], renderLists, last'.x, last'.y, last'.shouldPickObject)

\* C13: for the same lists, point and predicate, a pick returns on a debug
\* Picker what it returns on a Picker without debug, and leaves the same
\* readback buffer: the overlay pass changes neither.
C13_DebugSameValue ==
    [][ last'.op = "pick" =>
            /\ last'.val = PickWithoutDebug.val
            /\ picker'.pixelBuffer = PickWithoutDebug.w.picker.pixelBuffer ]_vars

\* a debug pick that returned Far's identifier and drew its overlay, with the
\* hashed identifier, into the host's render target
C13_Witness ==
    /\ PickReturned /\ picker.debug /\ last.val = FarId
    /\ \E k \in Draws(last.calls) :
          /\ last.calls[k].target # PickingTarget
          /\ last.calls[k].objectId = EncodeObjectId(hashInt(FarId))

\* the positions, in processing order, of the items that pass the skip tests
\* under the predicate and whose userData.pickingMaterial has no objectId uniform
MissingUniformAt(lists, shouldPickObject) ==
    { k \in 1..Len(AllItems(lists)) :
        /\ Eligible(AllItems(lists)[k], shouldPickObject)
        /\ AllItems(lists)[k].object.pickingMaterial # NoMaterial
        /\ ~materials[AllItems(lists)[k].object.pickingMaterial].hasObjectId }

FirstOf(S) == CHOOSE k \in S : \A j \in S : k <= j

\* C14: a call raises an error exactly when an eligible item's material has no
\* objectId uniform; no draw is then submitted for that item or for any later
\* one; and every material made for the cache has the uniform, so the item is
\* one with a custom material.
C14_MissingUniformHalts ==
    last.op \in {"pick", "pickDebugRender"} =>
        /\ (last.outcome = "threw") <=> (MissingUniformAt(renderLists, picker.shouldPickObjectCB) # {})
        /\ MissingUniformAt(renderLists, picker.shouldPickObjectCB) # {} =>
              \A d \in Draws(last.calls) :
                  \E j \in 1..(FirstOf(MissingUniformAt(renderLists, picker.shouldPickObjectCB)) - 1) :
                      AllItems(renderLists)[j].object.id = last.calls[d].object
        /\ \A h \in CachedHandles : materials[h].hasObjectId

\* a pick that drew Far, raised the error at Bad and drew neither Bad nor the
\* sprite after it
C14_Witness ==
    /\ last.op = "pick" /\ last.outcome = "threw"
    /\ renderLists = Lists(<<Far>>, <<>>, <<Bad, Sprite>>)
    /\ {last.calls[d].object : d \in Draws(last.calls)} = {FarId}

\* x * pixelRatio is a whole device pixel
WholeDevicePixel(x, pixelRatio) == (x * pixelRatio.num) % pixelRatio.den = 0

\* C15: for a requested point on a whole device pixel, the decoded readback
\* pixel is the one showing the point: on each axis the window origin plus the
\* sample offset is the requested device pixel.
C15_SampleIsRequestedPixel ==
    ( /\ PickReturned
      /\ WholeDevicePixel(last.x, gl.pixelRatio) /\ WholeDevicePixel(last.y, gl.pixelRatio) )
    => /\ WindowOrigin(last.x, gl.pixelRatio) + SampleOffset(last.x, gl.pixelRatio)
            = last.x * gl.pixelRatio.num
       /\ WindowOrigin(last.y, gl.pixelRatio) + SampleOffset(last.y, gl.pixelRatio)
            = last.y * gl.pixelRatio.num

\* the draws of a pick's readback pass: those submitted before the readback,
\* or all of them when the pass raised an error and nothing was read back
ReadbackDraws(calls) ==
    { d \in Draws(calls) :
        \A k \in 1..Len(calls) : calls[k].call = "readRenderTargetPixels" => d < k }

\* C16: in the readback pass of every pick, after any earlier calls, the
\* identifier written to the material for each submitted draw is the raw
\* object id, never its debug hash.
C16_ReadbackUsesRawId ==
    last.op = "pick" =>
        \A d \in ReadbackDraws(last.calls) :
            last.calls[d].objectId = EncodeObjectId(last.calls[d].object)

ViewOffsetCalls(calls) == {k \in 1..Len(calls) : calls[k].call = "setViewOffset"}

\* max(0, devicePixel - floor(targetSize / 2)) as a numerator over pixelRatio.den
ExpectedOrigin(x, pixelRatio) ==
    IF x * pixelRatio.num >= (PIXEL_WIDTH \div 2) * pixelRatio.den
    THEN x * pixelRatio.num - (PIXEL_WIDTH \div 2) * pixelRatio.den
    ELSE 0

\* C17: the window origin a pick passes to the camera's view restriction is
\* >= 0 on each axis and equals max(0, devicePixel - floor(targetSize / 2));
\* the window is targetSize x targetSize; a pick sets it exactly once.
C17_WindowOriginClamped ==
    last.op = "pick" =>
        /\ Cardinality(ViewOffsetCalls(last.calls)) = 1
        /\ \A k \in ViewOffsetCalls(last.calls) :
              /\ last.calls[k].x >= 0 /\ last.calls[k].y >= 0
              /\ last.calls[k].den = gl.pixelRatio.den
              /\ last.calls[k].x = ExpectedOrigin(last.x, gl.pixelRatio)
              /\ last.calls[k].y = ExpectedOrigin(last.y, gl.pixelRatio)
              /\ last.calls[k].width = PIXEL_WIDTH /\ last.calls[k].height = PIXEL_WIDTH

\* pick(2, 9) at pixel ratio 1: the origin is clamped to 0 on x and is 9 - 4 on y
C17_Witness ==
    /\ last.op = "pick" /\ last.x = 2 /\ last.y = 9 /\ gl.pixelRatio.den = 1
    /\ \E k \in ViewOffsetCalls(last.calls) : last.calls[k].x = 0 /\ last.calls[k].y = 5

\* the positions of a call in a call log
CallsAt(calls, entry) == {k \in 1..Len(calls) : calls[k] = entry}
CallsNamed(calls, name) == {k \in 1..Len(calls) : calls[k].call = name}

\* C18: within a pick that returns, in this order: the offscreen target is set
\* and cleared to opaque white, the render call runs and submits one draw per
\* eligible item into that target, the pixels are read back once, and then the
\* render target and the clear colour are restored and the view restriction
\* is cleared.  No draw of the pass follows the readback: a later draw belongs
\* to a later render call.  A pick that raises reads nothing back.
C18_StepsInOrder ==
    /\ PickReturned =>
          \E t \in CallsAt(last.calls, [call |-> "setRenderTarget", target |-> PickingTarget]),
             c \in CallsAt(last.calls, [call |-> "clear", target |-> PickingTarget,
                                        color |-> WHITE_COLOR, alpha |-> 1]),
             r \in CallsAt(last.calls, [call |-> "render", target |-> PickingTarget]),
             b \in CallsNamed(last.calls, "readRenderTargetPixels"),
             rt \in CallsAt(last.calls, [call |-> "setRenderTarget", target |-> last.entry.renderTarget]),
             cc \in CallsAt(last.calls, [call |-> "setClearColor", color |-> last.entry.clearColor,
                                         alpha |-> last.entry.clearAlpha]),
             cv \in CallsNamed(last.calls, "clearViewOffset") :
                /\ t < c /\ c < r /\ r < b /\ b < rt /\ rt < cc /\ cc < cv
                /\ CallsNamed(last.calls, "readRenderTargetPixels") = {b}
                /\ \A d \in Draws(last.calls) :
                      /\ d < b => (r < d /\ last.calls[d].target = PickingTarget)
                      /\ d > b => \E k \in CallsNamed(last.calls, "render") : cv < k /\ k < d
                /\ Cardinality({d \in Draws(last.calls) : d < b})
                      = Cardinality({k \in 1..Len(AllItems(renderLists)) :
                                        Eligible(AllItems(renderLists)[k], last.shouldPickObject)})
    /\ (last.op = "pick" /\ last.outcome = "threw") =>
          CallsNamed(last.calls, "readRenderTargetPixels") = {}

\* a debug pick that drew three items before its readback and again, in the
\* overlay pass, after it had restored the renderer
C18_Witness ==
    /\ PickReturned /\ picker.debug
    /\ \E b \in CallsNamed(last.calls, "readRenderTargetPixels") :
          /\ Cardinality({d \in Draws(last.calls) : d < b}) >= 3
          /\ Cardinality({d \in Draws(last.calls) : d > b}) >= 3

\* the calls of the render pass started by the render call at position r: up
\* to the next render call or the end of the log
PassCalls(calls, r) ==
    SubSeq(calls, r + 1,
           IF \E k \in CallsNamed(calls, "render") : k > r
           THEN (CHOOSE k \in CallsNamed(calls, "render") :
                    k > r /\ \A j \in CallsNamed(calls, "render") : j > r => k <= j) - 1
           ELSE Len(calls))

IsAsk(c) == c.call = "shouldPickObjectCB"
IsDraw(c) == c.call = "renderBufferDirect"
ObjectsOf(s) == [k \in 1..Len(s) |-> s[k].object]
IdsOf(items) == [k \in 1..Len(items) |-> items[k].object.id]
IsPrefix(s, t) == Len(s) <= Len(t) /\ s = SubSeq(t, 1, Len(s))

\* the items, in list order, for which the callback is consulted and which are drawn
ReachesCallback(item) == item.geometry /\ item.object.picking
PassesCallback(item) == Eligible(item, picker.shouldPickObjectCB)

\* C19: in every render pass the hook goes through the opaque, then the
\* transmissive, then the transparent items, each list in its own order and
\* each item once: the callback invocations and the draws of a pass are those
\* of the concatenated lists, in order (a prefix of them in a pass that raised).
C19_ListsInOrder ==
    last.op \in {"pick", "pickDebugRender"} =>
        \A r \in CallsNamed(last.calls, "render") :
            /\ IsPrefix(ObjectsOf(SelectSeq(PassCalls(last.calls, r), IsAsk)),
                        IdsOf(SelectSeq(AllItems(renderLists), ReachesCallback)))
            /\ IsPrefix(ObjectsOf(SelectSeq(PassCalls(last.calls, r), IsDraw)),
                        IdsOf(SelectSeq(AllItems(renderLists), PassesCallback)))
            /\ last.outcome = "returned" =>
                  /\ ObjectsOf(SelectSeq(PassCalls(last.calls, r), IsAsk))
                        = IdsOf(SelectSeq(AllItems(renderLists), ReachesCallback))
                  /\ ObjectsOf(SelectSeq(PassCalls(last.calls, r), IsDraw))
                        = IdsOf(SelectSeq(AllItems(renderLists), PassesCallback))

\* a pass over one opaque, two transmissive and two transparent items
C19_Witness ==
    /\ PickReturned
    /\ \E r \in CallsNamed(last.calls, "render") :
          ObjectsOf(SelectSeq(PassCalls(last.calls, r), IsDraw))
              = <<InstancedId, CustomId, SpriteId, PointsId>>

\* the items that pass the three skip tests under the predicate active after the call
ActiveEligible == EligibleItems(renderLists, picker'.shouldPickObjectCB)

\* C20 (amended): an item without geometry, flagged pick-opt-out or rejected by
\* the active predicate causes no draw, no cache entry and no change of a
\* material; the predicate is not invoked for an item without geometry or
\* flagged opt-out; and in a call that returns, every other item is drawn
\* exactly once in each render pass.
C20_SkippedItemsNoEffect ==
    [][ last'.op \in {"pick", "pickDebugRender"} =>
          /\ \A d \in Draws(last'.calls) :
                \E item \in ActiveEligible : item.object.id = last'.calls[d].object
          /\ \A k \in CallsNamed(last'.calls, "shouldPickObjectCB") :
                \E item \in ItemsOf(renderLists) :
                    ReachesCallback(item) /\ item.object.id = last'.calls[k].object
          /\ \A k \in CallsNamed(last'.calls, "new ShaderMaterial") :
                \E item \in ActiveEligible :
                    /\ item.object.pickingMaterial = NoMaterial
                    /\ MaterialIndex(item) = last'.calls[k].index
          /\ \A i \in DOMAIN picker'.materialCache :
                i \in DOMAIN picker.materialCache
                    \/ \E item \in ActiveEligible : MaterialIndex(item) = i
          /\ \A h \in DOMAIN materials' :
                (h \notin DOMAIN materials \/ materials'[h] # materials[h]) =>
                    \E item \in ActiveEligible :
                        \/ h = item.object.pickingMaterial
                        \/ /\ item.object.pickingMaterial = NoMaterial
                           /\ h = picker'.materialCache[MaterialIndex(item)]
          /\ last'.outcome = "returned" =>
                \A r \in CallsNamed(last'.calls, "render"), item \in ActiveEligible :
                    Cardinality({d \in 1..Len(PassCalls(last'.calls, r)) :
                                    /\ IsDraw(PassCalls(last'.calls, r)[d])
                                    /\ PassCalls(last'.calls, r)[d].object = item.object.id}) = 1
      ]_vars

\* one pick over an opt-out item, a rejected item, an item without geometry
\* and an accepted item: the callback was asked for Near and Far only, Far alone
\* was drawn and one material was created
C20_Witness ==
    /\ PickReturned /\ ~picker.debug
    /\ renderLists = Lists(<<OptOut, Near>>, <<NoGeom>>, <<Far>>)
    /\ last.shouldPickObject = OnlyFar
    /\ ObjectsOf(SelectSeq(last.calls, IsAsk)) = <<NearId, FarId>>
    /\ ObjectsOf(SelectSeq(last.calls, IsDraw)) = <<FarId>>
    /\ DOMAIN picker.materialCache = {0}

\* C20 as stated: no draw for a skipped item, and exactly one draw, in every
\* render pass, for every item that is not skipped.
C20_EveryOtherItemDrawnOnce ==
    last.op \in {"pick", "pickDebugRender"} =>
        \A r \in CallsNamed(last.calls, "render"), item \in ItemsOf(renderLists) :
            Cardinality({d \in 1..Len(PassCalls(last.calls, r)) :
                            /\ IsDraw(PassCalls(last.calls, r)[d])
                            /\ PassCalls(last.calls, r)[d].object = item.object.id})
                = IF PassesCallback(item) THEN 1 ELSE 0

\* the positions of the callback invocations for accepted items that carry
\* userData.pickingMaterial
OverrideAsks(calls, shouldPickObject) ==
    { k \in CallsNamed(calls, "shouldPickObjectCB") :
        /\ calls[k].object \in shouldPickObject
        /\ ItemOfId(renderLists, calls[k].object).object.pickingMaterial # NoMaterial }

\* C21: an eligible item with userData.pickingMaterial is drawn with that
\* material, straight after the callback accepted it, with no material created
\* in between (unless the material lacks the objectId uniform and the call
\* raises); the cache holds no override material, gets entries only under the
\* keys of eligible override-free items, and keeps every entry it had.
C21_OverrideBypassesCache ==
    [][ last'.op \in {"pick", "pickDebugRender"} =>
          /\ \A k \in OverrideAsks(last'.calls, picker'.shouldPickObjectCB) :
                IF k = Len(last'.calls) THEN last'.outcome = "threw"
                ELSE /\ IsDraw(last'.calls[k + 1])
                     /\ last'.calls[k + 1].object = last'.calls[k].object
                     /\ last'.calls[k + 1].material =
                            ItemOfId(renderLists, last'.calls[k].object).object.pickingMaterial
          /\ \A d \in Draws(last'.calls) :
                ItemOfId(renderLists, last'.calls[d].object).object.pickingMaterial # NoMaterial =>
                    last'.calls[d].material =
                        ItemOfId(renderLists, last'.calls[d].object).object.pickingMaterial
          /\ \A i \in DOMAIN picker.materialCache :
                i \in DOMAIN picker'.materialCache
                    /\ picker'.materialCache[i] = picker.materialCache[i]
          /\ \A i \in DOMAIN picker'.materialCache :
                /\ picker'.materialCache[i].kind = "cached"
                /\ i \in DOMAIN picker.materialCache
                      \/ \E item \in ActiveEligible :
                            item.object.pickingMaterial = NoMaterial /\ MaterialIndex(item) = i
      ]_vars

\* a pick drew Custom, whose key is 0, with its own material while the cache
\* got entries for the other three drawn items and none under key 0
C21_Witness ==
    /\ PickReturned /\ ~picker.debug
    /\ renderLists = Lists(<<Instanced>>, <<Custom, NoGeom>>, <<Sprite, Points>>)
    /\ \E d \in Draws(last.calls) :
          last.calls[d].object = CustomId /\ last.calls[d].material = CustomMaterial(1)
    /\ MaterialIndex(Custom) = 0
    /\ DOMAIN picker.materialCache = {1, 4, 6}

\* bit k of a cache key
KeyBit(i, k) == (i \div Pow2(k)) % 2 = 1

\* C22: in every state the cache keys are integers in 0..7, each the key
\* instanced | sprite << 1 | sizeAttenuation << 2 of the material stored under
\* it, and the cache holds at most 8 entries.
C22_CacheKeysInRange ==
    /\ DOMAIN picker.materialCache \subseteq 0..7
    /\ Cardinality(DOMAIN picker.materialCache) <= 8
    /\ \A i \in DOMAIN picker.materialCache :
          /\ materials[picker.materialCache[i]].spriteVert = KeyBit(i, 1)
          /\ materials[picker.materialCache[i]].sizeAttenuationDefine = KeyBit(i, 2)

\* picks over several frames filled the cache with the keys of a plain mesh,
\* an instanced mesh, a point cloud and a sprite
C22_Witness ==
    /\ last.op = "pick"
    /\ DOMAIN picker.materialCache = {0, 1, 4, 6}
    /\ materials[picker.materialCache[6]].spriteVert
    /\ ~materials[picker.materialCache[4]].spriteVert

\* the materials the cache holds
CacheContents == {picker.materialCache[i] : i \in DOMAIN picker.materialCache}

\* the positions of a call log at which a material was created
Creations(calls) == CallsNamed(calls, "new ShaderMaterial")

\* C23: until dispose, the materials the Picker created are exactly the
\* contents of the cache and none is disposed; a pick creates an entry only
\* under a key the cache lacked, once per key, for an eligible override-free
\* item, and keeps every entry as it was; dispose disposes every material the
\* Picker created.
C23_CreatedEqualsCache ==
    [][ /\ ~picker'.targetDisposed =>
              /\ CachedHandles' = CacheContents'
              /\ \A h \in CachedHandles' : ~materials'[h].disposed
        /\ last'.op = "pick" =>
              /\ \A i \in DOMAIN picker.materialCache :
                    i \in DOMAIN picker'.materialCache
                        /\ picker'.materialCache[i] = picker.materialCache[i]
              /\ \A k \in Creations(last'.calls) :
                    /\ last'.calls[k].index \notin DOMAIN picker.materialCache
                    /\ picker'.materialCache[last'.calls[k].index] = last'.calls[k].material
                    /\ \A j \in Creations(last'.calls) :
                          last'.calls[j].index = last'.calls[k].index => j = k
                    /\ \E item \in ActiveEligible :
                          /\ item.object.pickingMaterial = NoMaterial
                          /\ MaterialIndex(item) = last'.calls[k].index
        /\ last'.op = "dispose" =>
              /\ CachedHandles' = CachedHandles
              /\ \A h \in CachedHandles' : materials'[h].disposed
      ]_vars

\* dispose after picks over several frames had created four materials
C23_Witness ==
    /\ last.op = "dispose"
    /\ Cardinality(CachedHandles) = 4
    /\ \A h \in CachedHandles : materials[h].disposed
    /\ Cardinality(CallsNamed(last.calls, "material.dispose")) = 4

\* C24: in a pick of a debug Picker that returns, the overlay pass starts
\* after the readback, after the entry render target is set again and after
\* the view offset is cleared; its draws go to the entry render target, not
\* to the picking target, and without view offset; the value returned is the
\* one decoded from the readback; and the clear colour and clear alpha after
\* the overlay pass are those before it, the ones of the entry state.
C24_OverlayAfterRestore ==
    (PickReturned /\ picker.debug) =>
        /\ Cardinality(CallsNamed(last.calls, "render")) = 2
        /\ \E r1 \in CallsNamed(last.calls, "render"), r2 \in CallsNamed(last.calls, "render") :
              /\ r1 < r2
              /\ \E rb \in CallsNamed(last.calls, "readRenderTargetPixels"),
                     st \in CallsAt(last.calls, [call |-> "setRenderTarget",
                                                 target |-> last.entry.renderTarget]),
                     cv \in CallsNamed(last.calls, "clearViewOffset") :
                    /\ r1 < rb /\ rb < st /\ st < cv /\ cv < r2
                    /\ \A k \in (cv + 1)..Len(last.calls) :
                          last.calls[k].call \notin {"setRenderTarget", "setViewOffset",
                                                     "readRenderTargetPixels"}
                    /\ last.calls[cv + 1] = [call |-> "setClearColor", color |-> WHITE_COLOR, alpha |-> 1]
                    /\ last.calls[cv - 1] = [call |-> "setClearColor", color |-> last.entry.clearColor,
                                             alpha |-> last.entry.clearAlpha]
              /\ last.calls[r2].target = last.entry.renderTarget
              /\ \A d \in Draws(last.calls) :
                    d > r2 => /\ last.calls[d].target = last.entry.renderTarget
                              /\ last.calls[d].target # PickingTarget
                              /\ ~last.calls[d].view
        /\ last.val = DecodeAt(picker.pixelBuffer, ByteOffset(last.x, last.y, gl.pixelRatio),
                               gl.pixelRatio.den)
        /\ gl.clearColor = last.entry.clearColor
        /\ gl.clearAlpha = last.entry.clearAlpha

\* the values the objectId uniform can encode for an object: its identifier,
\* or the hash of it that a debug pass draws
EncodingsOf(id) == {EncodeObjectId(id), EncodeObjectId(hashInt(id))}

\* C25: at every draw the objectId uniform of the material used encodes the
\* identifier of the item drawn (or its debug hash) and not that of any other
\* item of the lists, whether or not the material is shared with other items.
C25_UniformIsOwnId ==
    \A d \in Draws(last.calls) :
        /\ last.calls[d].objectId \in EncodingsOf(last.calls[d].object)
        /\ \A item \in ItemsOf(renderLists) :
              item.object.id # last.calls[d].object =>
                  last.calls[d].objectId \notin EncodingsOf(item.object.id)

\* a pick drew Near and then Far with the same cached material, each with
\* its own identifier in the uniform
C25_Witness ==
    /\ PickReturned /\ ~picker.debug
    /\ \E a \in Draws(last.calls), b \in Draws(last.calls) :
          /\ a < b
          /\ last.calls[a].object = NearId /\ last.calls[b].object = FarId
          /\ last.calls[a].material = last.calls[b].material
          /\ last.calls[a].objectId = EncodeObjectId(NearId)
          /\ last.calls[b].objectId = EncodeObjectId(FarId)

\* C26: for every pick, the byte offset used to decode the identifier is a
\* whole number, the four bytes read lie inside the readback buffer of
\* 4 * PIXEL_WIDTH * PIXEL_WIDTH bytes, and a pick that returns returns an
\* integer.
C26_OffsetWholeInBuffer ==
    last.op = "pick" =>
        /\ ByteOffset(last.x, last.y, gl.pixelRatio) % gl.pixelRatio.den = 0
        /\ 0 <= ByteOffset(last.x, last.y, gl.pixelRatio)
        /\ ByteOffset(last.x, last.y, gl.pixelRatio) + 3 * gl.pixelRatio.den
              < 4 * PIXEL_WIDTH * PIXEL_WIDTH * gl.pixelRatio.den
        /\ PickReturned => last.val \notin {NaN, NoVal}

\* C27: a render function is invoked only when every done callback handed
\* out before has been called; a repeated call of a done callback changes
\* nothing; and the lock is released only by the first call of the done
\* callback of the latest invocation, never by an older one.
C27_RenderLock ==
    [][ /\ Len(adapter'.invocations) > Len(adapter.invocations) =>
              \A i \in 1..Len(adapter.invocations) : adapter.invocations[i].doneCalled
        /\ (adapter'.event.op = "done" /\ ~adapter'.event.first) =>
              /\ adapter'.renderingRef = adapter.renderingRef
              /\ adapter'.invocations = adapter.invocations
        /\ (adapter.renderingRef /\ ~adapter'.renderingRef) =>
              /\ adapter'.event.op = "done"
              /\ adapter'.event.invocation = Len(adapter.invocations)
              /\ ~adapter.invocations[Len(adapter.invocations)].doneCalled
      ]_vars

\* the done callback of the first invocation is called again while the second
\* invocation holds the lock: the lock stays
C27_Witness ==
    /\ adapter.event = [op |-> "done", invocation |-> 1, first |-> FALSE]
    /\ Len(adapter.invocations) = 2
    /\ ~adapter.invocations[2].doneCalled
    /\ adapter.renderingRef

\* C28: at most one animation frame request is pending and rafRequestedRef
\* holds its handle; a frame is requested only when none is outstanding
\* (re-initialisation cancels the outstanding one first); rafRequestedRef is
\* cleared only when the callback runs or on re-initialisation.
C28_OneFramePending ==
    [][ /\ Cardinality(adapter'.frames) <= 1
        /\ (adapter'.rafRequestedRef = Undefined) <=> (adapter'.frames = {})
        /\ \A r \in adapter'.frames : adapter'.rafRequestedRef = [handle |-> r.handle]
        /\ (adapter'.event.op # "initPanel" /\ ~(adapter'.frames \subseteq adapter.frames)) =>
              adapter.frames = {} /\ adapter.rafRequestedRef = Undefined
        /\ (adapter.rafRequestedRef # Undefined /\ adapter'.rafRequestedRef = Undefined) =>
              adapter'.event.op \in {"animationFrame", "initPanel"}
      ]_vars

\* a second pipeline update arrived while the frame requested before it was
\* still outstanding: one request is pending
C28_Witness ==
    /\ adapter.event.op = "pipeline"
    /\ adapter.latestPipelineContextRef = [topics |-> TopicsRef(2)]
    /\ adapter.invocations = <<>>
    /\ adapter.frames = {[handle |-> 1, fn |-> RenderFn(1)]}
    /\ adapter.rafRequestedRef = [handle |-> 1]

\* C29: re-initialisation leaves no frame requested before it pending and
\* empties the previous render state, and an animation frame of a panel is
\* never turned away by a lock that an invocation of another panel's render
\* function holds.
C29_ReinitResets ==
    [][ /\ adapter'.event.op = "initPanel" =>
              /\ adapter'.frames \cap adapter.frames = {}
              /\ adapter'.prevRenderState = [topics |-> Undefined]
        /\ (adapter'.event.op = "animationFrame" /\ adapter'.event.result = "slow") =>
              adapter.invocations[Len(adapter.invocations)].fn = adapter'.event.fn
      ]_vars

\* C30: when the topics changed while a render was in progress and the panel
\* has called done, the render function is eventually invoked with the change.
C30_ChangeRenderedAfterDone ==
    (/\ adapter.changedWhileRendering /\ ~adapter.renderingRef
     /\ ~adapter.error /\ adapter.renderFn # Undefined)
        ~> ~adapter.changedWhileRendering

====
